---- MODULE Spec2Model ----
(***************************************************************************)
(* Recipe-sharing REST backend: the recipe endpoint (RecipeViewSet), its   *)
(* engagement actions (favorite, unfavorite, rate, comment, my_recipes),   *)
(* the comment detail endpoint and the permission classes they consult.    *)
(*                                                                         *)
(* The tables of the relational store are the state.  Each request handler *)
(* is one action; the last request and its response are kept in `call' and *)
(* `resp' so that properties can speak about the outcome of a call.        *)
(***************************************************************************)
EXTENDS Integers, Sequences, FiniteSets, TLC

(***************************************************************************)
(* Bounds of the model.                                                    *)
(***************************************************************************)
MaxRecipes == 2
MaxComments == 2
MaxTime == 1

(***************************************************************************)
(* Program constants.                                                      *)
(***************************************************************************)
MinRating == 1
MaxRating == 5
HTTP_200_OK == 200
HTTP_201_CREATED == 201
HTTP_204_NO_CONTENT == 204
HTTP_400_BAD_REQUEST == 400
HTTP_401_UNAUTHORIZED == 401
HTTP_403_FORBIDDEN == 403
HTTP_404_NOT_FOUND == 404
HTTP_500_INTERNAL_SERVER_ERROR == 500

(***************************************************************************)
(* Identities.  A request is made by a registered user or by the anonymous *)
(* requester (request.user is AnonymousUser).                              *)
(***************************************************************************)
Users == {"u1", "u2"}
Anonymous == "anon"
Requesters == Users \cup {Anonymous}
RecipeIds == 1..MaxRecipes
CommentIds == 1..MaxComments
Pairs == Users \X RecipeIds

VARIABLES
    is_staff,       \* User.is_staff, per user
    accounts,       \* User table: id -> [username, email], domain = the registered
    recipes,        \* Recipe table: id -> row, domain = the ids that exist
    nextRecipeId,   \* the store's next Recipe primary key
    ingredient_items, \* Ingredient table: the set of rows [recipe, name]
    now,            \* the clock reading that stamps created_at
    favorites,      \* Favorite table: (user, recipe) -> number of rows
    ratings,        \* Rating table: (user, recipe) -> the rating column of its rows
    comments,       \* Comment table: id -> row
    nextCommentId,  \* the store's next Comment primary key
    workers,        \* requests in flight, one per concurrent worker
    call,           \* the last request
    resp            \* its response

vars == <<is_staff, accounts, recipes, nextRecipeId, ingredient_items, now, favorites,
          ratings, comments, nextCommentId, workers, call, resp>>

(***************************************************************************)
(* Python values that reach the handlers in request.data.                  *)
(***************************************************************************)
PyNone == [t |-> "none", n |-> 0, s |-> <<>>]
PyInt(n) == [t |-> "int", n |-> n, s |-> <<>>]
\* a float with one fractional digit, held in tenths: 3.7 is PyFloat(37)
PyFloat(tenths) == [t |-> "float", n |-> tenths, s |-> <<>>]
PyStr(s) == [t |-> "str", n |-> 0, s |-> s]

Digits == <<"0", "1", "2", "3", "4", "5", "6", "7", "8", "9">>
IsDigit(c) == \E i \in 1..10 : Digits[i] = c
DigitVal(c) == (CHOOSE i \in 1..10 : Digits[i] = c) - 1
IsSpace(c) == c = " "

\* bool(x): Python truthiness
Truthy(x) ==
    CASE x.t = "none" -> FALSE
      [] x.t = "int" -> x.n # 0
      [] x.t = "float" -> x.n # 0
      [] x.t = "str" -> Len(x.s) > 0

\* str.strip()
RECURSIVE LStrip(_)
LStrip(s) == IF s # <<>> /\ IsSpace(Head(s)) THEN LStrip(Tail(s)) ELSE s
RECURSIVE RStrip(_)
RStrip(s) ==
    IF s # <<>> /\ IsSpace(s[Len(s)]) THEN RStrip(SubSeq(s, 1, Len(s) - 1)) ELSE s
Strip(s) == RStrip(LStrip(s))

RECURSIVE DigitsValue(_)
DigitsValue(s) ==
    IF s = <<>> THEN 0
    ELSE 10 * DigitsValue(SubSeq(s, 1, Len(s) - 1)) + DigitVal(s[Len(s)])

\* int(x): [ok, n]; ok = FALSE is ValueError / TypeError
ParseInt(s) ==
    LET t == Strip(s)
        neg == t # <<>> /\ Head(t) = "-"
        d == IF t # <<>> /\ Head(t) \in {"-", "+"} THEN Tail(t) ELSE t
    IN  IF d # <<>> /\ \A i \in 1..Len(d) : IsDigit(d[i])
        THEN [ok |-> TRUE, n |-> IF neg THEN 0 - DigitsValue(d) ELSE DigitsValue(d)]
        ELSE [ok |-> FALSE, n |-> 0]

Trunc(tenths) == IF tenths >= 0 THEN tenths \div 10 ELSE 0 - ((0 - tenths) \div 10)

ToInt(x) ==
    CASE x.t = "int" -> [ok |-> TRUE, n |-> x.n]
      [] x.t = "float" -> [ok |-> TRUE, n |-> Trunc(x.n)]
      [] x.t = "str" -> ParseInt(x.s)
      [] x.t = "none" -> [ok |-> FALSE, n |-> 0]

(***************************************************************************)
(* Strings are sequences of characters; icontains lower-cases both sides.  *)
(***************************************************************************)
Lower(c) ==
    CASE c = "S" -> "s"
      [] c = "P" -> "p"
      [] c = "A" -> "a"
      [] c = "B" -> "b"
      [] OTHER -> c
LowerStr(s) == [i \in 1..Len(s) |-> Lower(s[i])]
IContains(hay, needle) ==
    \E i \in 1..(Len(hay) - Len(needle) + 1) :
        SubSeq(LowerStr(hay), i, i + Len(needle) - 1) = LowerStr(needle)

Soup == <<"S", "o", "u", "p">>
Pie == <<"P", "i", "e">>
Titles == {Soup, Pie}

\* usernames and email addresses
NameBob == <<"b", "o", "b">>
NameBobCaps == <<"B", "o", "b">>
NameAl == <<"a", "l">>
NameCy == <<"c", "y">>
MailA == <<"a", "@", "x">>
MailACaps == <<"A", "@", "x">>
MailC == <<"c", "@", "x">>
MailD == <<"d", "@", "x">>

(***************************************************************************)
(* Query parameters of the recipe endpoint.  An empty value is the absent  *)
(* parameter: `if search:' and `if author:' skip it.                       *)
(***************************************************************************)
NoQuery == [search |-> <<>>, author |-> ""]
Queries ==
    {NoQuery,
     [search |-> <<"s", "o">>, author |-> ""],
     [search |-> <<>>, author |-> "u1"]}

(***************************************************************************)
(* Permission classes.                                                     *)
(***************************************************************************)
SAFE_METHODS == {"GET", "HEAD", "OPTIONS"}

IsAuthenticated(user) == user # Anonymous

IsAuthenticatedOrReadOnly(method, user) ==
    method \in SAFE_METHODS \/ user # Anonymous

\* a permission class that lets every write through
AllowAnyWrite(method, user, obj) == TRUE

\* the object's owner: obj.author when it has one, else obj.user
IsOwnerOrReadOnly(method, user, obj) ==
    \/ method \in SAFE_METHODS
    \/ IF "author" \in DOMAIN obj THEN obj.author = user
       ELSE IF "user" \in DOMAIN obj THEN obj.user = user
       ELSE FALSE

IsAdminUser(user) == user # Anonymous /\ is_staff[user]

IsOwnerOrAdmin(user, obj) ==
    /\ user # Anonymous
    /\ \/ is_staff[user]
       \/ IF "author" \in DOMAIN obj THEN obj.author = user
          ELSE IF "user" \in DOMAIN obj THEN obj.user = user
          ELSE FALSE

\* A refused request: NotAuthenticated for the anonymous requester, rendered
\* 401 when the authenticator supplies a challenge header and 403 when it
\* does not (the authentication classes are configured outside these
\* files); PermissionDenied (403) for an authenticated one.
DeniedStatus(user) ==
    IF user = Anonymous
    THEN {HTTP_401_UNAUTHORIZED, HTTP_403_FORBIDDEN}
    ELSE {HTTP_403_FORBIDDEN}

(***************************************************************************)
(* RecipeViewSet.get_queryset: every recipe that passes the search and     *)
(* author parameters; ordered by created_at, most recent first.            *)
(***************************************************************************)
QuerysetIds(q) ==
    {id \in DOMAIN recipes :
        /\ q.search # <<>> => IContains(recipes[id].title, q.search)
        /\ q.author # "" => recipes[id].author = q.author}

\* the orders `-created_at' admits for the rows S (rows of equal created_at
\* come in any order)
OrderByCreatedDesc(S) ==
    {seq \in [1..Cardinality(S) -> S] :
        /\ \A i, j \in 1..Cardinality(S) : i # j => seq[i] # seq[j]
        /\ \A i, j \in 1..Cardinality(S) :
              i < j => recipes[seq[i]].created_at >= recipes[seq[j]].created_at}

\* Recipe.Meta.ordering, the order of a queryset with no order_by
RecipeMetaOrdering(S) == OrderByCreatedDesc(S)

\* get_object(): the row with this pk in the filtered queryset, or Http404
ObjectFound(pk, q) == pk \in QuerysetIds(q)

(***************************************************************************)
(* Favorite and Rating tables.                                             *)
(***************************************************************************)
\* Model.objects.get(user=u, recipe=r) on a table of row counts
GetOutcome(n) ==
    IF n = 0 THEN "DoesNotExist"
    ELSE IF n = 1 THEN "found"
    ELSE "MultipleObjectsReturned"

\* a handler that inserts a row without looking one up
FavoriteCreateAlways(favs, u, r) ==
    [table |-> [favs EXCEPT ![<<u, r>>] = @ + 1], outcome |-> "created"]

\* a handler that inserts without the lookup and meets the row already there
FavoriteCreateRaises(favs, u, r) ==
    IF favs[<<u, r>>] = 0
    THEN [table |-> [favs EXCEPT ![<<u, r>>] = @ + 1], outcome |-> "created"]
    ELSE [table |-> favs, outcome |-> "IntegrityError"]

\* Favorite.objects.get_or_create(user=u, recipe=r), run with no other
\* write between its lookup and its insert: [table, outcome]
FavoriteGetOrCreate(favs, u, r) ==
    LET got == GetOutcome(favs[<<u, r>>])
    IN  IF got = "DoesNotExist"
        THEN [table |-> [favs EXCEPT ![<<u, r>>] = @ + 1], outcome |-> "created"]
        ELSE [table |-> favs, outcome |-> got]

\* get_or_create in place of update_or_create: an existing row keeps its value
RatingGetOrCreate(rats, u, r, v) ==
    LET got == GetOutcome(Len(rats[<<u, r>>]))
    IN  IF got = "DoesNotExist"
        THEN [table |-> [rats EXCEPT ![<<u, r>>] = <<v>>], outcome |-> "created"]
        ELSE IF got = "found"
        THEN [table |-> rats, outcome |-> "updated"]
        ELSE [table |-> rats, outcome |-> got]

\* Rating.objects.update_or_create(user=u, recipe=r, defaults={'rating': v}),
\* v as the integer column stores it: [table, outcome]
RatingUpdateOrCreate(rats, u, r, v) ==
    LET got == GetOutcome(Len(rats[<<u, r>>]))
    IN  IF got = "DoesNotExist"
        THEN [table |-> [rats EXCEPT ![<<u, r>>] = <<v>>], outcome |-> "created"]
        ELSE IF got = "found"
        THEN [table |-> [rats EXCEPT ![<<u, r>>] = <<v>>], outcome |-> "updated"]
        ELSE [table |-> rats, outcome |-> got]

\* the check of rate(): "invalid" is the 400 branch, "error" is int() raising
RatingCheck(x) ==
    IF ~Truthy(x) THEN "invalid"
    ELSE IF ~ToInt(x).ok THEN "error"
    ELSE IF ~(MinRating <= ToInt(x).n /\ ToInt(x).n <= MaxRating) THEN "invalid"
    ELSE "valid"

\* the value the integer column keeps for rating_value
StoredRating(x) == ToInt(x).n

(***************************************************************************)
(* Request inputs.                                                         *)
(***************************************************************************)
RatingInputs ==
    {PyNone, PyStr(<<>>), PyInt(0), PyInt(3), PyInt(5), PyInt(6),
     PyStr(<<"5">>), PyStr(<<"a", "b", "c">>), PyFloat(37)}

Workers == {"w1", "w2"}
Idle == [pc |-> "idle"]

(***************************************************************************)
(* Initial states.  The store holds two registered users.  InitEmpty has   *)
(* no recipe yet; InitSeeded has one published recipe of u1 and one        *)
(* unpublished recipe of u2.                                               *)
(***************************************************************************)
SeededRecipes ==
    (1 :> [author |-> "u1", title |-> Soup, is_published |-> TRUE, created_at |-> 0])
    @@ (2 :> [author |-> "u2", title |-> Pie, is_published |-> FALSE, created_at |-> 0])

\* the registered users of the runs that register no one
SeededAccounts ==
    [u \in Users |->
        IF u = "u1" THEN [username |-> NameBob, email |-> MailA]
        ELSE [username |-> NameAl, email |-> MailC]]

InitCommon ==
    /\ accounts = SeededAccounts
    /\ ingredient_items = {}
    /\ favorites = [p \in Pairs |-> 0]
    /\ ratings = [p \in Pairs |-> <<>>]
    /\ comments = <<>>
    /\ nextCommentId = 1
    /\ workers = [w \in Workers |-> Idle]
    /\ call = [op |-> "none"]
    /\ resp = [status |-> 0, data |-> <<>>]

\* u2 holds the administrative flag, u1 does not
StaffSeed == [u \in Users |-> u = "u2"]

InitEmpty ==
    /\ InitCommon
    /\ is_staff = StaffSeed
    /\ recipes = <<>>
    /\ nextRecipeId = 1
    /\ now = 0

InitSeeded ==
    /\ InitCommon
    /\ is_staff = StaffSeed
    /\ recipes = SeededRecipes
    /\ nextRecipeId = 3
    /\ now = 0

Request(op, user, pk, q, arg) ==
    [op |-> op, user |-> user, pk |-> pk, q |-> q, arg |-> arg]

Respond(c, status, data) ==
    /\ call' = c
    /\ resp' = [status |-> status, data |-> data]

(***************************************************************************)
(* RecipeViewSet.favorite: POST /recipes/{pk}/favorite/                    *)
(***************************************************************************)
Favorite(user, pk, q) ==
    LET c == Request("favorite", user, pk, q, PyNone)
    IN  /\ UNCHANGED <<is_staff, accounts, ingredient_items, recipes, nextRecipeId, now, ratings, comments,
                       nextCommentId, workers>>
        /\ IF ~IsAuthenticated(user)
           THEN /\ \E st \in DeniedStatus(user) : Respond(c, st, <<>>)
                /\ UNCHANGED favorites
           ELSE IF ~ObjectFound(pk, q)
           THEN /\ Respond(c, HTTP_404_NOT_FOUND, <<>>)
                /\ UNCHANGED favorites
           ELSE LET res == FavoriteGetOrCreate(favorites, user, pk)
                IN  /\ favorites' = res.table
                    /\ Respond(c,
                               CASE res.outcome = "created" -> HTTP_201_CREATED
                                 [] res.outcome = "found" -> HTTP_200_OK
                                 [] OTHER -> HTTP_500_INTERNAL_SERVER_ERROR,
                               <<>>)

(***************************************************************************)
(* RecipeViewSet.unfavorite: DELETE /recipes/{pk}/unfavorite/              *)
(***************************************************************************)
\* a delete that removes nothing
FavoriteKept(favs, u, r) == favs

\* a delete of every Favorite of the user, whatever the recipe
FavoriteDeleteOfUser(favs, u, r) == [p \in DOMAIN favs |-> IF p[1] = u THEN 0 ELSE favs[p]]

\* favorite.delete() on the row filter(user, recipe).first() returned
FavoriteDelete(favs, u, r) == [favs EXCEPT ![<<u, r>>] = @ - 1]

Unfavorite(user, pk, q) ==
    LET c == Request("unfavorite", user, pk, q, PyNone)
    IN  /\ UNCHANGED <<is_staff, accounts, ingredient_items, recipes, nextRecipeId, now, ratings, comments,
                       nextCommentId, workers>>
        /\ IF ~IsAuthenticated(user)
           THEN /\ \E st \in DeniedStatus(user) : Respond(c, st, <<>>)
                /\ UNCHANGED favorites
           ELSE IF ~ObjectFound(pk, q)
           THEN /\ Respond(c, HTTP_404_NOT_FOUND, <<>>)
                /\ UNCHANGED favorites
           ELSE IF favorites[<<user, pk>>] > 0
           THEN /\ favorites' = FavoriteDelete(favorites, user, pk)
                /\ Respond(c, HTTP_204_NO_CONTENT, <<>>)
           ELSE /\ Respond(c, HTTP_404_NOT_FOUND, <<>>)
                /\ UNCHANGED favorites

(***************************************************************************)
(* RecipeViewSet.rate: POST /recipes/{pk}/rate/ with data['rating'] = x    *)
(***************************************************************************)
Rate(user, pk, q, x) ==
    LET c == Request("rate", user, pk, q, x)
    IN  /\ UNCHANGED <<is_staff, accounts, ingredient_items, recipes, nextRecipeId, now, favorites, comments,
                       nextCommentId, workers>>
        /\ IF ~IsAuthenticated(user)
           THEN /\ \E st \in DeniedStatus(user) : Respond(c, st, <<>>)
                /\ UNCHANGED ratings
           ELSE IF ~ObjectFound(pk, q)
           THEN /\ Respond(c, HTTP_404_NOT_FOUND, <<>>)
                /\ UNCHANGED ratings
           ELSE IF RatingCheck(x) = "invalid"
           THEN /\ Respond(c, HTTP_400_BAD_REQUEST, <<>>)
                /\ UNCHANGED ratings
           ELSE IF RatingCheck(x) = "error"
           THEN /\ Respond(c, HTTP_500_INTERNAL_SERVER_ERROR, <<>>)
                /\ UNCHANGED ratings
           ELSE LET res == RatingUpdateOrCreate(ratings, user, pk, StoredRating(x))
                IN  /\ ratings' = res.table
                    /\ Respond(c,
                               CASE res.outcome = "created" -> HTTP_201_CREATED
                                 [] res.outcome = "updated" -> HTTP_200_OK
                                 [] OTHER -> HTTP_500_INTERNAL_SERVER_ERROR,
                               <<>>)

(***************************************************************************)
(* The engagement operations, one request at a time, sent without query    *)
(* parameters.                                                             *)
(***************************************************************************)
NextEngagement ==
    \E user \in Requesters, pk \in RecipeIds, q \in {NoQuery} :
        \/ Favorite(user, pk, q)
        \/ Unfavorite(user, pk, q)
        \/ \E x \in RatingInputs : Rate(user, pk, q, x)

SpecEngagement == InitSeeded /\ [][NextEngagement]_vars

(***************************************************************************)
(* Properties of the engagement operations.                                *)
(***************************************************************************)
\* the request just answered was `op', made by a registered user on a
\* recipe the endpoint's queryset holds
Served(op) ==
    /\ call'.op = op
    /\ call'.user \in Users
    /\ ObjectFound(call'.pk, call'.q)

\* x is an integer in [1,5], given as a number or in decimal digits
IsRatingValue(x) ==
    \/ x.t = "int" /\ x.n \in MinRating..MaxRating
    \/ x.t = "str" /\ ParseInt(x.s).ok /\ ParseInt(x.s).n \in MinRating..MaxRating

RatingValue(x) == IF x.t = "int" THEN x.n ELSE ParseInt(x.s).n

\* C1: for every (user, recipe) pair there is at most one Favorite row and
\* at most one Rating row, whatever favorite, unfavorite and rate calls
\* were made.
C1_Uniqueness ==
    \A p \in Pairs : favorites[p] <= 1 /\ Len(ratings[p]) <= 1

\* a repeated favorite or rate was just answered for a pair that holds a
\* Favorite and a Rating
C1_Witness ==
    /\ call.op \in {"favorite", "rate"}
    /\ resp.status = HTTP_200_OK
    /\ favorites[<<call.user, call.pk>>] = 1
    /\ Len(ratings[<<call.user, call.pk>>]) = 1

\* C3: rate is an upsert keyed on (user, recipe): a rate call with a valid
\* value b leaves exactly one Rating for the pair, holding b; it reports
\* created (201) when the pair had no Rating and updated (200) when it had
\* one, so a rate that follows a successful rate of the same pair reports
\* updated.
C3_RateUpsert ==
    [][(Served("rate") /\ IsRatingValue(call'.arg)) =>
        LET p == <<call'.user, call'.pk>>
        IN  /\ ratings'[p] = <<RatingValue(call'.arg)>>
            /\ resp'.status =
                  IF ratings[p] = <<>> THEN HTTP_201_CREATED ELSE HTTP_200_OK
            /\ (/\ call.op = "rate"
                /\ <<call.user, call.pk>> = p
                /\ resp.status \in {HTTP_200_OK, HTTP_201_CREATED})
               => resp'.status = HTTP_200_OK]_vars

\* a second rate of a pair was answered `updated' and the row holds its value
C3_Witness ==
    /\ call.op = "rate"
    /\ call.arg = PyInt(5)
    /\ resp.status = HTTP_200_OK
    /\ ratings[<<call.user, call.pk>>] = <<5>>

\* C4: a rate call whose value is missing, not an integer or outside 1..5
\* answers 400 and leaves the Rating rows unchanged.
C4_InvalidRatingRejected ==
    [][(Served("rate") /\ ~IsRatingValue(call'.arg)) =>
        /\ resp'.status = HTTP_400_BAD_REQUEST
        /\ ratings' = ratings]_vars

\* C10: favorite is an idempotent add: when the pair has a Favorite the call
\* answers 200 and changes no table; otherwise it answers 201 and the pair
\* has exactly one Favorite, every other pair being unchanged.
C10_FavoriteIdempotent ==
    [][Served("favorite") =>
        LET p == <<call'.user, call'.pk>>
        IN  IF favorites[p] > 0
            THEN /\ resp'.status = HTTP_200_OK
                 /\ favorites' = favorites
                 /\ ratings' = ratings
            ELSE /\ resp'.status = HTTP_201_CREATED
                 /\ favorites' = [favorites EXCEPT ![p] = 1]
                 /\ ratings' = ratings]_vars

\* a favorite call found the pair's Favorite already there
C10_Witness ==
    /\ call.op = "favorite"
    /\ resp.status = HTTP_200_OK
    /\ favorites[<<call.user, call.pk>>] = 1

\* C11: unfavorite removes the Favorite of (user, recipe) when one exists,
\* after which the pair has none, and answers 204; when none exists it
\* answers 404, an ordinary response, and leaves the Favorite rows unchanged.
C11_Unfavorite ==
    [][Served("unfavorite") =>
        LET p == <<call'.user, call'.pk>>
        IN  IF favorites[p] > 0
            THEN /\ resp'.status = HTTP_204_NO_CONTENT
                 /\ favorites' = [favorites EXCEPT ![p] = 0]
            ELSE /\ resp'.status = HTTP_404_NOT_FOUND
                 /\ favorites' = favorites]_vars

\* an unfavorite removed the pair's Favorite while another pair keeps its own
C11_Witness ==
    /\ call.op = "unfavorite"
    /\ resp.status = HTTP_204_NO_CONTENT
    /\ favorites[<<call.user, call.pk>>] = 0
    /\ \E p \in Pairs : favorites[p] = 1

\* an unfavorite of a pair without Favorite was answered 404
C11_WitnessAbsent ==
    /\ call.op = "unfavorite"
    /\ call.user \in Users
    /\ resp.status = HTTP_404_NOT_FOUND
    /\ \E p \in Pairs : favorites[p] = 1

(***************************************************************************)
(* Two requests in flight.  A worker runs one favorite or rate request as  *)
(* the store steps get_or_create / update_or_create issue: the lookup, the *)
(* insert, the lookup repeated after a refused insert, and the update.     *)
(* Steps of the two workers interleave freely.                             *)
(***************************************************************************)
ConcurrentRatingInputs == {PyInt(0), PyInt(3), PyInt(5)}

\* the unique index on (user, recipe) refuses an insert when the pair has a row
UniqueTogetherViolated(n) == n > 0

\* a handler that lets the IntegrityError of its insert escape
IntegrityErrorRaised(op) == "raise"

\* what get_or_create does when its insert raises IntegrityError: it looks
\* the row up again and returns it with created=False
OnIntegrityError(op) == "reget"

Working(w, pc, status) == [workers[w] EXCEPT !.pc = pc, !.status = status]

\* the request arrives: permission check, get_object and, for rate, the
\* validation of the value
Begin(w, op, user, pk, x) ==
    /\ workers[w].pc = "idle"
    /\ LET r == [pc |-> "get", op |-> op, user |-> user, pk |-> pk, arg |-> x,
                 status |-> 0, conflict |-> FALSE]
           done(st) == [r EXCEPT !.pc = "done", !.status = st]
       IN  IF ~IsAuthenticated(user)
           THEN \E st \in DeniedStatus(user) :
                    workers' = [workers EXCEPT ![w] = done(st)]
           ELSE IF ~ObjectFound(pk, NoQuery)
           THEN workers' = [workers EXCEPT ![w] = done(HTTP_404_NOT_FOUND)]
           ELSE IF op = "rate" /\ RatingCheck(x) = "invalid"
           THEN workers' = [workers EXCEPT ![w] = done(HTTP_400_BAD_REQUEST)]
           ELSE IF op = "rate" /\ RatingCheck(x) = "error"
           THEN workers' = [workers EXCEPT ![w] = done(HTTP_500_INTERNAL_SERVER_ERROR)]
           ELSE workers' = [workers EXCEPT ![w] = r]
    /\ UNCHANGED <<is_staff, accounts, ingredient_items, recipes, nextRecipeId, now, favorites, ratings,
                   comments, nextCommentId, call, resp>>

RowCount(w) ==
    LET p == <<workers[w].user, workers[w].pk>>
    IN  IF workers[w].op = "favorite" THEN favorites[p] ELSE Len(ratings[p])

\* the lookup: get(user=..., recipe=...)
Lookup(w) ==
    /\ workers[w].pc \in {"get", "reget"}
    /\ LET got == GetOutcome(RowCount(w))
       IN  workers' = [workers EXCEPT ![w] =
              IF got = "found"
              THEN IF workers[w].op = "favorite"
                   THEN Working(w, "done", HTTP_200_OK)
                   ELSE Working(w, "save", 0)
              ELSE IF got = "DoesNotExist" /\ workers[w].pc = "get"
              THEN Working(w, "create", 0)
              ELSE Working(w, "done", HTTP_500_INTERNAL_SERVER_ERROR)]
    /\ UNCHANGED <<is_staff, accounts, ingredient_items, recipes, nextRecipeId, now, favorites, ratings,
                   comments, nextCommentId, call, resp>>

\* the insert: create(**params) under the unique index
Insert(w) ==
    /\ workers[w].pc = "create"
    /\ LET p == <<workers[w].user, workers[w].pk>>
       IN  IF UniqueTogetherViolated(RowCount(w))
           THEN /\ workers' = [workers EXCEPT ![w] =
                      IF OnIntegrityError(workers[w].op) = "reget"
                      THEN [workers[w] EXCEPT !.pc = "reget", !.conflict = TRUE]
                      ELSE [workers[w] EXCEPT !.pc = "done", !.conflict = TRUE,
                               !.status = HTTP_500_INTERNAL_SERVER_ERROR]]
                /\ UNCHANGED <<favorites, ratings>>
           ELSE /\ workers' = [workers EXCEPT ![w] = Working(w, "done", HTTP_201_CREATED)]
                /\ IF workers[w].op = "favorite"
                   THEN /\ favorites' = [favorites EXCEPT ![p] = @ + 1]
                        /\ UNCHANGED ratings
                   ELSE /\ ratings' = [ratings EXCEPT
                                          ![p] = Append(@, StoredRating(workers[w].arg))]
                        /\ UNCHANGED favorites
    /\ UNCHANGED <<is_staff, accounts, ingredient_items, recipes, nextRecipeId, now, comments, nextCommentId,
                   call, resp>>

\* the update of the row found: setattr(obj, 'rating', v); obj.save()
Save(w) ==
    /\ workers[w].pc = "save"
    /\ LET p == <<workers[w].user, workers[w].pk>>
       IN  ratings' = [ratings EXCEPT
                          ![p] = IF @ = <<>> THEN <<StoredRating(workers[w].arg)>>
                                 ELSE <<StoredRating(workers[w].arg)>> \o Tail(@)]
    /\ workers' = [workers EXCEPT ![w] = Working(w, "done", HTTP_200_OK)]
    /\ UNCHANGED <<is_staff, accounts, ingredient_items, recipes, nextRecipeId, now, favorites, comments,
                   nextCommentId, call, resp>>

NextConcurrent ==
    \E w \in Workers :
        \/ \E op \in {"favorite", "rate"}, user \in Requesters, pk \in RecipeIds,
              x \in ConcurrentRatingInputs :
                /\ op = "favorite" => x = PyInt(0)
                /\ Begin(w, op, user, pk, x)
        \/ Lookup(w)
        \/ Insert(w)
        \/ Save(w)

SpecConcurrent == InitSeeded /\ [][NextConcurrent]_vars

\* both requests are answered, and they were the same operation of the same
\* registered user on the same existing recipe (a valid value for rate)
SameRequests(op) ==
    /\ \A w \in Workers :
          /\ workers[w].pc = "done"
          /\ workers[w].op = op
          /\ workers[w].user \in Users
          /\ workers[w].pk \in DOMAIN recipes
          /\ op = "rate" => IsRatingValue(workers[w].arg)
    /\ workers["w1"].user = workers["w2"].user
    /\ workers["w1"].pk = workers["w2"].pk

\* C2: whatever the interleaving of two rate requests of one user on one
\* recipe, the pair ends with exactly one Rating row and neither request
\* fails unhandled; likewise two favorite requests and the Favorite row.
C2_ConcurrentUpsert ==
    /\ SameRequests("rate") =>
          /\ Len(ratings[<<workers["w1"].user, workers["w1"].pk>>]) = 1
          /\ \A w \in Workers : workers[w].status \in {HTTP_200_OK, HTTP_201_CREATED}
    /\ SameRequests("favorite") =>
          /\ favorites[<<workers["w1"].user, workers["w1"].pk>>] = 1
          /\ \A w \in Workers : workers[w].status \in {HTTP_200_OK, HTTP_201_CREATED}

\* two rate requests of one pair raced: one of them had its insert refused
C2_Witness ==
    /\ SameRequests("rate")
    /\ \E w \in Workers : workers[w].conflict

(***************************************************************************)
(* The recipe endpoint: create, update, destroy (RecipeViewSet) and the    *)
(* administrators' recipe endpoint (AdminRecipeDetailView).                *)
(***************************************************************************)
\* request bodies of a create; one of them names another user as author
CreatePayloads ==
    [title : Titles, is_published : BOOLEAN]
        \cup {[title |-> Soup, is_published |-> TRUE, author |-> "u2"],
              [title |-> <<"P", "i">>, is_published |-> TRUE],
              [title |-> <<>>, is_published |-> TRUE]}

\* request bodies of an update; a field that is absent is left as it is
UpdatePayloads ==
    {[is_published |-> FALSE, author |-> "u2"],
     [title |-> Pie, is_published |-> TRUE]}

\* a serializer that lets the request body set the author
WritableFieldsAndAuthor == {"title", "is_published", "author"}

\* the fields RecipeDetailSerializer writes (author is read-only)
WritableFields == {"title", "is_published"}

ApplyPayload(row, data) ==
    [f \in DOMAIN row |->
        IF f \in DOMAIN data /\ f \in WritableFields THEN data[f] ELSE row[f]]

\* RecipeViewSet.get_serializer_class
get_serializer_class(action) ==
    IF action = "list" THEN "RecipeListSerializer" ELSE "RecipeDetailSerializer"

\* the Ingredient rows after serializer.save() on recipe pk.
\* RecipeCreateUpdateSerializer.update deletes the recipe's rows and creates
\* the supplied ones when the body has an ingredients_list; in
\* RecipeDetailSerializer the field is read-only and the body's list is
\* dropped.
IngredientsAfter(serializer, pk, data) ==
    IF serializer = "RecipeCreateUpdateSerializer" /\ "ingredients_list" \in DOMAIN data
    THEN {row \in ingredient_items : row.recipe # pk}
            \cup {[recipe |-> pk, name |-> n] : n \in data.ingredients_list}
    ELSE ingredient_items

\* the validators of Recipe.title, which the serializer's title field takes
\* from the model field
MinTitleLength == 3
TitleValid(title) == Len(title) >= MinTitleLength

\* a serializer whose title field has no validator but the blank check
PayloadValidNotBlank(method, data) ==
    /\ method = "PATCH" \/ "title" \in DOMAIN data
    /\ "title" \in DOMAIN data => data.title # <<>>

\* serializer.is_valid(): PUT and POST require every required field, PATCH
\* none; a field that is present is validated
PayloadValid(method, data) ==
    /\ method = "PATCH" \/ "title" \in DOMAIN data
    /\ "title" \in DOMAIN data => TitleValid(data.title)

\* on_delete=CASCADE of the rows that refer to recipe pk
CascadeIngredients(pk) == {row \in ingredient_items : row.recipe # pk}
CascadeFavorites(pk) ==
    [p \in DOMAIN favorites |-> IF p[2] = pk THEN 0 ELSE favorites[p]]
CascadeRatings(pk) ==
    [p \in DOMAIN ratings |-> IF p[2] = pk THEN <<>> ELSE ratings[p]]
CascadeComments(pk) ==
    [id \in {i \in DOMAIN comments : comments[i].recipe # pk} |-> comments[id]]

\* a delete that removes the recipe row and nothing else
DeleteRowOnly(pk) ==
    /\ recipes' = [id \in DOMAIN recipes \ {pk} |-> recipes[id]]
    /\ UNCHANGED <<ingredient_items, favorites, ratings, comments>>

\* instance.delete(): the row and, by cascade, the rows that refer to it
DeleteRecipe(pk) ==
    /\ recipes' = [id \in DOMAIN recipes \ {pk} |-> recipes[id]]
    /\ ingredient_items' = CascadeIngredients(pk)
    /\ favorites' = CascadeFavorites(pk)
    /\ ratings' = CascadeRatings(pk)
    /\ comments' = CascadeComments(pk)

\* POST /recipes/
RecipeCreate(user, data) ==
    LET c == Request("create", user, 0, NoQuery, data)
    IN  /\ UNCHANGED <<is_staff, accounts, ingredient_items, now, favorites, ratings, comments, nextCommentId,
                       workers>>
        /\ IF ~IsAuthenticatedOrReadOnly("POST", user)
           THEN /\ \E st \in DeniedStatus(user) : Respond(c, st, <<>>)
                /\ UNCHANGED <<recipes, nextRecipeId>>
           ELSE IF ~PayloadValid("POST", data)
           THEN /\ Respond(c, HTTP_400_BAD_REQUEST, <<>>)
                /\ UNCHANGED <<recipes, nextRecipeId>>
           ELSE /\ nextRecipeId <= MaxRecipes
                /\ recipes' = [id \in DOMAIN recipes \cup {nextRecipeId} |->
                                 IF id = nextRecipeId
                                 THEN [author |-> user, title |-> data.title,
                                       is_published |-> data.is_published,
                                       created_at |-> now]
                                 ELSE recipes[id]]
                /\ nextRecipeId' = nextRecipeId + 1
                /\ Respond(c, HTTP_201_CREATED, <<nextRecipeId>>)

\* PUT / PATCH /recipes/{pk}/
RecipeUpdate(user, pk, q, method, data) ==
    LET c == Request("update", user, pk, q, [method |-> method, data |-> data])
    IN  /\ UNCHANGED <<is_staff, accounts, nextRecipeId, now, favorites, ratings, comments,
                       nextCommentId, workers>>
        /\ IF ~IsAuthenticatedOrReadOnly(method, user)
           THEN /\ \E st \in DeniedStatus(user) : Respond(c, st, <<>>)
                /\ UNCHANGED <<recipes, ingredient_items>>
           ELSE IF ~ObjectFound(pk, q)
           THEN /\ Respond(c, HTTP_404_NOT_FOUND, <<>>)
                /\ UNCHANGED <<recipes, ingredient_items>>
           ELSE IF ~IsOwnerOrReadOnly(method, user, recipes[pk])
           THEN /\ \E st \in DeniedStatus(user) : Respond(c, st, <<>>)
                /\ UNCHANGED <<recipes, ingredient_items>>
           ELSE IF ~PayloadValid(method, data)
           THEN /\ Respond(c, HTTP_400_BAD_REQUEST, <<>>)
                /\ UNCHANGED <<recipes, ingredient_items>>
           ELSE /\ recipes' = [recipes EXCEPT ![pk] = ApplyPayload(@, data)]
                /\ ingredient_items' =
                      IngredientsAfter(get_serializer_class("update"), pk, data)
                /\ Respond(c, HTTP_200_OK, <<pk>>)

\* DELETE /recipes/{pk}/
RecipeDestroy(user, pk, q) ==
    LET c == Request("destroy", user, pk, q, PyNone)
    IN  /\ UNCHANGED <<is_staff, accounts, nextRecipeId, now, nextCommentId, workers>>
        /\ IF ~IsAuthenticatedOrReadOnly("DELETE", user)
           THEN /\ \E st \in DeniedStatus(user) : Respond(c, st, <<>>)
                /\ UNCHANGED <<recipes, ingredient_items, favorites, ratings, comments>>
           ELSE IF ~ObjectFound(pk, q)
           THEN /\ Respond(c, HTTP_404_NOT_FOUND, <<>>)
                /\ UNCHANGED <<recipes, ingredient_items, favorites, ratings, comments>>
           ELSE IF ~IsOwnerOrReadOnly("DELETE", user, recipes[pk])
           THEN /\ \E st \in DeniedStatus(user) : Respond(c, st, <<>>)
                /\ UNCHANGED <<recipes, ingredient_items, favorites, ratings, comments>>
           ELSE /\ DeleteRecipe(pk)
                /\ Respond(c, HTTP_204_NO_CONTENT, <<>>)

\* PUT / PATCH /admin/recipes/{pk}/
AdminRecipeUpdate(user, pk, method, data) ==
    LET c == Request("admin_update", user, pk, NoQuery,
                     [method |-> method, data |-> data])
    IN  /\ UNCHANGED <<is_staff, accounts, nextRecipeId, now, favorites, ratings, comments,
                       nextCommentId, workers>>
        /\ IF ~IsAdminUser(user)
           THEN /\ \E st \in DeniedStatus(user) : Respond(c, st, <<>>)
                /\ UNCHANGED <<recipes, ingredient_items>>
           ELSE IF pk \notin DOMAIN recipes
           THEN /\ Respond(c, HTTP_404_NOT_FOUND, <<>>)
                /\ UNCHANGED <<recipes, ingredient_items>>
           ELSE IF ~PayloadValid(method, data)
           THEN /\ Respond(c, HTTP_400_BAD_REQUEST, <<>>)
                /\ UNCHANGED <<recipes, ingredient_items>>
           ELSE /\ recipes' = [recipes EXCEPT ![pk] = ApplyPayload(@, data)]
                /\ ingredient_items' =
                      IngredientsAfter("RecipeDetailSerializer", pk, data)
                /\ Respond(c, HTTP_200_OK, <<pk>>)

\* DELETE /admin/recipes/{pk}/
AdminRecipeDestroy(user, pk) ==
    LET c == Request("admin_destroy", user, pk, NoQuery, PyNone)
    IN  /\ UNCHANGED <<is_staff, accounts, nextRecipeId, now, nextCommentId, workers>>
        /\ IF ~IsAdminUser(user)
           THEN /\ \E st \in DeniedStatus(user) : Respond(c, st, <<>>)
                /\ UNCHANGED <<recipes, ingredient_items, favorites, ratings, comments>>
           ELSE IF pk \notin DOMAIN recipes
           THEN /\ Respond(c, HTTP_404_NOT_FOUND, <<>>)
                /\ UNCHANGED <<recipes, ingredient_items, favorites, ratings, comments>>
           ELSE /\ DeleteRecipe(pk)
                /\ Respond(c, HTTP_204_NO_CONTENT, <<>>)

WriteQueries == {NoQuery, [search |-> <<>>, author |-> "u1"]}

NextRecipeWrite ==
    \E user \in Requesters :
        \/ \E data \in CreatePayloads : RecipeCreate(user, data)
        \/ \E pk \in RecipeIds, q \in WriteQueries, method \in {"PUT", "PATCH"},
              data \in UpdatePayloads : RecipeUpdate(user, pk, q, method, data)
        \/ \E pk \in RecipeIds, q \in WriteQueries : RecipeDestroy(user, pk, q)
        \/ \E pk \in RecipeIds, method \in {"PUT", "PATCH"}, data \in UpdatePayloads :
              AdminRecipeUpdate(user, pk, method, data)
        \/ \E pk \in RecipeIds : AdminRecipeDestroy(user, pk)

SpecRecipeWrite == InitEmpty /\ [][NextRecipeWrite]_vars

\* the outcome class of a refused request: PermissionDenied or NotAuthenticated
IsForbidden(status) == status \in {HTTP_401_UNAUTHORIZED, HTTP_403_FORBIDDEN}

\* the recipe the request just answered was aimed at, as it was before
Target == recipes[call'.pk]

\* C5: an update or delete of a recipe by a requester who is neither its
\* author nor an admin (an authenticated user or the anonymous requester)
\* is refused as forbidden and leaves every recipe as it was; this holds on
\* the recipe endpoint and on the administrators' recipe endpoint.
C5_NonOwnerWriteForbidden ==
    [][(/\ call'.op \in {"update", "destroy", "admin_update", "admin_destroy"}
        /\ ObjectFound(call'.pk, call'.q)
        /\ \/ call'.user = Anonymous
           \/ Target.author # call'.user /\ ~is_staff[call'.user])
       => /\ IsForbidden(resp'.status)
          /\ recipes' = recipes]_vars

\* u1, who is no admin, was refused an update of a recipe of u2
C5_Witness ==
    /\ call.op = "update"
    /\ call.user = "u1"
    /\ ~is_staff["u1"]
    /\ call.pk \in DOMAIN recipes
    /\ recipes[call.pk].author = "u2"
    /\ resp.status = HTTP_403_FORBIDDEN

\* C16: a created recipe has the requester as author whatever author the
\* request body names, and no request changes the author of a recipe that
\* exists; so each recipe's author is the user who created it.
C16_AuthorFixed ==
    [][/\ (call'.op = "create" /\ resp'.status = HTTP_201_CREATED) =>
            /\ DOMAIN recipes' = DOMAIN recipes \cup {resp'.data[1]}
            /\ resp'.data[1] \notin DOMAIN recipes
            /\ recipes'[resp'.data[1]].author = call'.user
       /\ \A id \in DOMAIN recipes \cap DOMAIN recipes' :
            recipes'[id].author = recipes[id].author]_vars

\* u1 created a recipe with a body naming u2 as author and is its author
C16_Witness ==
    /\ call.op = "create"
    /\ call.user = "u1"
    /\ "author" \in DOMAIN call.arg
    /\ call.arg.author = "u2"
    /\ resp.status = HTTP_201_CREATED
    /\ recipes[resp.data[1]].author = "u1"

\* the author of a recipe of u1 answered an update whose body names u2 as
\* author, and the recipe is still u1's
C16_WitnessUpdate ==
    /\ call.op = "update"
    /\ resp.status = HTTP_200_OK
    /\ "author" \in DOMAIN call.arg.data
    /\ recipes[call.pk].author = "u1"

C18_WitnessShort ==
    /\ call.op = "create"
    /\ call.user \in Users
    /\ Len(call.arg.title) = 2
    /\ resp.status = HTTP_400_BAD_REQUEST

\* C6: on the recipe endpoint an update or delete by an admin who is not
\* the recipe's author succeeds exactly as it does for the author.
C6_AdminWriteSucceeds ==
    [][(/\ call'.op \in {"update", "destroy"}
        /\ ObjectFound(call'.pk, call'.q)
        /\ call'.user \in Users
        /\ is_staff[call'.user]
        /\ Target.author # call'.user)
       => resp'.status =
             IF call'.op = "destroy" THEN HTTP_204_NO_CONTENT
             ELSE IF PayloadValid(call'.arg.method, call'.arg.data) THEN HTTP_200_OK
             ELSE HTTP_400_BAD_REQUEST]_vars

(***************************************************************************)
(* The read operations of the recipe endpoint: list, retrieve, my_recipes. *)
(* They change no table, so they are checked from every Recipe table the   *)
(* bounds admit: any set of ids, created_at not decreasing with the id.    *)
(***************************************************************************)
RecipeRows ==
    [author : Users, title : Titles, is_published : BOOLEAN, created_at : 0..MaxTime]

RecipeTables ==
    {t \in UNION {[D -> RecipeRows] : D \in SUBSET RecipeIds} :
        \A i, j \in DOMAIN t : i < j => t[i].created_at <= t[j].created_at}

InitRead ==
    /\ InitCommon
    /\ is_staff = StaffSeed
    /\ recipes \in RecipeTables
    /\ nextRecipeId = MaxRecipes + 1
    /\ now = MaxTime

(***************************************************************************)
(* Derived fields of a serialized recipe.  A decimal number with one       *)
(* decimal place is kept as its count of tenths (3.7 is 37).               *)
(***************************************************************************)
\* the (user, recipe) keys that hold a Rating of recipe r
RatersOf(r) == {p \in DOMAIN ratings : p[2] = r /\ ratings[p] # <<>>}

RECURSIVE SumRatings(_)
SumRatings(S) ==
    IF S = {} THEN 0
    ELSE LET p == CHOOSE x \in S : TRUE
         IN  ratings[p][1] + SumRatings(S \ {p})

\* Recipe.average_rating(): the mean as the fraction num / den, 0 when
\* the recipe has no rating
average_rating(r) ==
    IF RatersOf(r) = {} THEN [num |-> 0, den |-> 1]
    ELSE [num |-> SumRatings(RatersOf(r)), den |-> Cardinality(RatersOf(r))]

\* round(x, 1) of x = num / den >= 0, in tenths; a value halfway between
\* two tenths goes to the even one
RoundTenths(num, den) ==
    LET q == (10 * num) \div den
        rem == (10 * num) % den
    IN  IF 2 * rem < den THEN q
        ELSE IF 2 * rem > den THEN q + 1
        ELSE IF q % 2 = 0 THEN q ELSE q + 1

\* a serializer that cuts the mean after the first decimal place
AverageTruncated(r) == (10 * average_rating(r).num) \div average_rating(r).den

\* get_average_rating: round(obj.average_rating(), 1)
get_average_rating(r) == RoundTenths(average_rating(r).num, average_rating(r).den)

\* the response of a recipe read: the rows in page order and the
\* average_rating field of each, computed while serializing
RespondRecipes(c, page) ==
    /\ call' = c
    /\ resp' = [status |-> HTTP_200_OK, data |-> page,
                average_rating |-> [i \in 1..Len(page) |-> get_average_rating(page[i])]]

\* GET /recipes/
RecipeList(user, q) ==
    /\ UNCHANGED <<is_staff, accounts, ingredient_items, recipes, nextRecipeId, now, favorites, ratings, comments,
                   nextCommentId, workers>>
    /\ \E page \in OrderByCreatedDesc(QuerysetIds(q)) :
          RespondRecipes(Request("list", user, 0, q, PyNone), page)

\* GET /recipes/{pk}/
RecipeRetrieve(user, pk, q) ==
    /\ UNCHANGED <<is_staff, accounts, ingredient_items, recipes, nextRecipeId, now, favorites, ratings, comments,
                   nextCommentId, workers>>
    /\ IF ObjectFound(pk, q)
       THEN RespondRecipes(Request("retrieve", user, pk, q, PyNone), <<pk>>)
       ELSE Respond(Request("retrieve", user, pk, q, PyNone), HTTP_404_NOT_FOUND, <<>>)

\* a my_recipes that keeps the published recipes only
MyPublishedRecipeIds(user) ==
    {id \in DOMAIN recipes : recipes[id].author = user /\ recipes[id].is_published}

\* Recipe.objects.filter(author=request.user)
MyRecipeIds(user) == {id \in DOMAIN recipes : recipes[id].author = user}

\* GET /recipes/my_recipes/
MyRecipes(user) ==
    LET c == Request("my_recipes", user, 0, NoQuery, PyNone)
    IN  /\ UNCHANGED <<is_staff, accounts, ingredient_items, recipes, nextRecipeId, now, favorites, ratings,
                       comments, nextCommentId, workers>>
        /\ IF ~IsAuthenticated(user)
           THEN \E st \in DeniedStatus(user) : Respond(c, st, <<>>)
           ELSE \E page \in RecipeMetaOrdering(MyRecipeIds(user)) :
                    RespondRecipes(c, page)

NextRecipeRead ==
    \E user \in Requesters :
        \/ \E q \in Queries : RecipeList(user, q)
        \/ \E pk \in RecipeIds, q \in Queries : RecipeRetrieve(user, pk, q)
        \/ MyRecipes(user)

SpecRecipeRead == InitRead /\ [][NextRecipeRead]_vars

\* the ids a response lists
Listed == {resp.data[i] : i \in 1..Len(resp.data)}

\* viewer may see recipe id: it is published, or the viewer wrote it or is admin
Visible(viewer, id) ==
    \/ recipes[id].is_published
    \/ viewer \in Users /\ (recipes[id].author = viewer \/ is_staff[viewer])

\* C8: an unpublished recipe is never shown to a viewer who is neither its
\* author nor an admin: list omits it whatever the filters, and retrieve
\* answers 404.
C8_UnpublishedHidden ==
    /\ call.op = "list" => \A id \in Listed : Visible(call.user, id)
    /\ (/\ call.op = "retrieve"
        /\ call.pk \in DOMAIN recipes
        /\ ~Visible(call.user, call.pk)) => resp.status = HTTP_404_NOT_FOUND

\* C9: my_recipes answers exactly the recipes whose author is the caller,
\* published or not, each once, most recently created first.
C9_MyRecipes ==
    (call.op = "my_recipes" /\ call.user \in Users) =>
        /\ resp.status = HTTP_200_OK
        /\ Listed = {id \in DOMAIN recipes : recipes[id].author = call.user}
        /\ Len(resp.data) = Cardinality(Listed)
        /\ \A i, j \in 1..Len(resp.data) :
              i < j => recipes[resp.data[i]].created_at >= recipes[resp.data[j]].created_at

\* the caller got two recipes of theirs, the later one first, one of them
\* unpublished
C9_Witness ==
    /\ call.op = "my_recipes"
    /\ resp.status = HTTP_200_OK
    /\ Len(resp.data) = 2
    /\ recipes[resp.data[1]].created_at > recipes[resp.data[2]].created_at
    /\ \E i \in 1..2 : ~recipes[resp.data[i]].is_published

(***************************************************************************)
(* Ratings and reads: three users rate the seeded recipes and any viewer   *)
(* reads them.                                                             *)
(***************************************************************************)
Raters == Users \cup {"u3"}
AverageRatingInputs == {PyInt(3), PyInt(5)}

InitRatingRead ==
    /\ is_staff = StaffSeed
    /\ recipes = SeededRecipes
    /\ nextRecipeId = 3
    /\ now = 0
    /\ accounts = SeededAccounts
    /\ ingredient_items = {}
    /\ favorites = [p \in Pairs |-> 0]
    /\ ratings = [p \in Raters \X RecipeIds |-> <<>>]
    /\ comments = <<>>
    /\ nextCommentId = 1
    /\ workers = [w \in Workers |-> Idle]
    /\ call = [op |-> "none"]
    /\ resp = [status |-> 0, data |-> <<>>]

NextRatingRead ==
    \/ \E user \in Raters, pk \in RecipeIds, x \in AverageRatingInputs :
          Rate(user, pk, NoQuery, x)
    \/ \E user \in Requesters :
          \/ \E q \in Queries : RecipeList(user, q)
          \/ \E pk \in RecipeIds, q \in Queries : RecipeRetrieve(user, pk, q)
          \/ MyRecipes(user)

SpecRatingRead == InitRatingRead /\ [][NextRatingRead]_vars

\* a recipe read was just answered with rows
ReadAnswered ==
    /\ call.op \in {"list", "retrieve", "my_recipes"}
    /\ resp.status = HTTP_200_OK

\* the Rating values stored for recipe r, as count and sum
RatingCount(r) == Cardinality({p \in DOMAIN ratings : p[2] = r /\ Len(ratings[p]) > 0})
RatingSum(r) == SumRatings({p \in DOMAIN ratings : p[2] = r /\ Len(ratings[p]) > 0})

\* C14 as stated: the averageRating a read returns for a recipe is the
\* arithmetic mean of the Rating values stored for it, sum divided by
\* count, and 0.0 when it has none.
C14_AverageIsMean ==
    ReadAnswered =>
        \A i \in 1..Len(resp.data) :
            LET r == resp.data[i]
            IN  IF RatingCount(r) = 0 THEN resp.average_rating[i] = 0
                ELSE resp.average_rating[i] * RatingCount(r) = 10 * RatingSum(r)

\* C14 amended: the averageRating a read returns for a recipe is the mean
\* of the Rating values stored for it at the time of the read rounded to
\* one decimal place, a multiple of 0.1 at most 0.05 away from the mean,
\* and 0.0 when it has none.
C14_AverageRounded ==
    ReadAnswered =>
        \A i \in 1..Len(resp.data) :
            LET r == resp.data[i]
                d == 10 * RatingSum(r) - resp.average_rating[i] * RatingCount(r)
            IN  IF RatingCount(r) = 0 THEN resp.average_rating[i] = 0
                ELSE 2 * d <= RatingCount(r) /\ -2 * d <= RatingCount(r)

\* a read returned 3.7 for a recipe rated 3, 3 and 5
C14_Witness ==
    /\ ReadAnswered
    /\ \E i \in 1..Len(resp.data) :
          /\ RatingCount(resp.data[i]) = 3
          /\ RatingSum(resp.data[i]) = 11
          /\ resp.average_rating[i] = 37

(***************************************************************************)
(* Comments: RecipeViewSet.comment and the comment detail endpoint         *)
(* (CommentUpdateDeleteView).                                              *)
(***************************************************************************)
Blank3 == <<" ", " ", " ">>
PaddedHi == <<" ", "h", "i", " ">>
CommentTexts == {PyNone, PyStr(<<>>), PyStr(Blank3), PyStr(PaddedHi)}

\* the text field of an update body; PyNone is the absent field
UpdateTexts == {PyNone, PyStr(Blank3), PyStr(PaddedHi)}

\* a store that keeps one comment per (user, recipe) and overwrites it
CommentUpsert(tbl, id, user, pk, text) ==
    IF \E i \in DOMAIN tbl : tbl[i].user = user /\ tbl[i].recipe = pk
    THEN [i \in DOMAIN tbl |->
            IF tbl[i].user = user /\ tbl[i].recipe = pk
            THEN [tbl[i] EXCEPT !.text = text] ELSE tbl[i]]
    ELSE [i \in DOMAIN tbl \cup {id} |->
            IF i = id THEN [user |-> user, recipe |-> pk, text |-> text]
            ELSE tbl[i]]

\* Comment.objects.create(user, recipe, text): a new row under a new id
CommentCreate(tbl, id, user, pk, text) ==
    [i \in DOMAIN tbl \cup {id} |->
        IF i = id THEN [user |-> user, recipe |-> pk, text |-> text]
        ELSE tbl[i]]

\* POST /recipes/{pk}/comment/ with data['text'] = text
Comment(user, pk, q, text) ==
    LET c == Request("comment", user, pk, q, text)
    IN  /\ UNCHANGED <<is_staff, accounts, ingredient_items, recipes, nextRecipeId, now, favorites, ratings,
                       workers>>
        /\ IF ~IsAuthenticated(user)
           THEN /\ \E st \in DeniedStatus(user) : Respond(c, st, <<>>)
                /\ UNCHANGED <<comments, nextCommentId>>
           ELSE IF ~ObjectFound(pk, q)
           THEN /\ Respond(c, HTTP_404_NOT_FOUND, <<>>)
                /\ UNCHANGED <<comments, nextCommentId>>
           ELSE IF ~Truthy(text)
           THEN /\ Respond(c, HTTP_400_BAD_REQUEST, <<>>)
                /\ UNCHANGED <<comments, nextCommentId>>
           ELSE /\ nextCommentId <= MaxComments
                /\ comments' = CommentCreate(comments, nextCommentId, user, pk, text.s)
                /\ nextCommentId' = nextCommentId + 1
                /\ Respond(c, HTTP_201_CREATED, <<nextCommentId>>)

\* the object-level check of the comment detail endpoint
CommentWriteAllowed(method, user, obj) == IsOwnerOrReadOnly(method, user, obj)

\* CommentSerializer's text field: required on PUT, trimmed, not blank
CommentTextCheck(method, text) ==
    IF text = PyNone THEN (IF method = "PATCH" THEN "absent" ELSE "invalid")
    ELSE IF Strip(text.s) = <<>> THEN "invalid"
    ELSE "valid"

\* GET /comments/{pk}/
CommentRetrieve(user, pk) ==
    /\ UNCHANGED <<is_staff, accounts, ingredient_items, recipes, nextRecipeId, now, favorites, ratings, comments,
                   nextCommentId, workers>>
    /\ IF pk \in DOMAIN comments
       THEN Respond(Request("comment_retrieve", user, pk, NoQuery, PyNone),
                    HTTP_200_OK, <<pk>>)
       ELSE Respond(Request("comment_retrieve", user, pk, NoQuery, PyNone),
                    HTTP_404_NOT_FOUND, <<>>)

\* PUT / PATCH /comments/{pk}/
CommentUpdate(user, pk, method, text) ==
    LET c == Request("comment_update", user, pk, NoQuery,
                     [method |-> method, text |-> text])
    IN  /\ UNCHANGED <<is_staff, accounts, ingredient_items, recipes, nextRecipeId, now, favorites, ratings,
                       nextCommentId, workers>>
        /\ IF pk \notin DOMAIN comments
           THEN /\ Respond(c, HTTP_404_NOT_FOUND, <<>>)
                /\ UNCHANGED comments
           ELSE IF ~CommentWriteAllowed(method, user, comments[pk])
           THEN /\ \E st \in DeniedStatus(user) : Respond(c, st, <<>>)
                /\ UNCHANGED comments
           ELSE IF CommentTextCheck(method, text) = "invalid"
           THEN /\ Respond(c, HTTP_400_BAD_REQUEST, <<>>)
                /\ UNCHANGED comments
           ELSE /\ comments' =
                      IF CommentTextCheck(method, text) = "absent" THEN comments
                      ELSE [comments EXCEPT ![pk].text = Strip(text.s)]
                /\ Respond(c, HTTP_200_OK, <<pk>>)

\* DELETE /comments/{pk}/
CommentDestroy(user, pk) ==
    LET c == Request("comment_destroy", user, pk, NoQuery, PyNone)
    IN  /\ UNCHANGED <<is_staff, accounts, ingredient_items, recipes, nextRecipeId, now, favorites, ratings,
                       nextCommentId, workers>>
        /\ IF pk \notin DOMAIN comments
           THEN /\ Respond(c, HTTP_404_NOT_FOUND, <<>>)
                /\ UNCHANGED comments
           ELSE IF ~CommentWriteAllowed("DELETE", user, comments[pk])
           THEN /\ \E st \in DeniedStatus(user) : Respond(c, st, <<>>)
                /\ UNCHANGED comments
           ELSE /\ comments' = [id \in DOMAIN comments \ {pk} |-> comments[id]]
                /\ Respond(c, HTTP_204_NO_CONTENT, <<>>)

NextComment ==
    \E user \in Requesters :
        \/ \E pk \in RecipeIds, text \in CommentTexts : Comment(user, pk, NoQuery, text)
        \/ \E pk \in CommentIds : CommentRetrieve(user, pk)
        \/ \E pk \in CommentIds, method \in {"PUT", "PATCH"}, text \in UpdateTexts :
              CommentUpdate(user, pk, method, text)
        \/ \E pk \in CommentIds : CommentDestroy(user, pk)

SpecComment == InitSeeded /\ [][NextComment]_vars

\* C7: an update or delete of a comment goes through exactly when the
\* requester is the comment's author or holds the administrative flag; any
\* other requester, the anonymous one included, is refused as forbidden and
\* the comment is left as it was.
C7_CommentOwnerOrAdmin ==
    [][(/\ call'.op \in {"comment_update", "comment_destroy"}
        /\ call'.pk \in DOMAIN comments)
       => IF IsOwnerOrAdmin(call'.user, comments[call'.pk])
          THEN ~IsForbidden(resp'.status)
          ELSE IsForbidden(resp'.status) /\ comments' = comments]_vars

\* the comments of user u on recipe r
CommentsOf(tbl, u, r) == {i \in DOMAIN tbl : tbl[i].user = u /\ tbl[i].recipe = r}

\* C12: comment trims the text: a text that is missing, empty or only
\* whitespace answers 400 and creates no Comment; any other text is stored
\* without its surrounding whitespace.
C12_CommentTrimmed ==
    [][Served("comment") =>
        IF call'.arg = PyNone \/ Strip(call'.arg.s) = <<>>
        THEN /\ resp'.status = HTTP_400_BAD_REQUEST
             /\ comments' = comments
        ELSE /\ resp'.status = HTTP_201_CREATED
             /\ \E id \in DOMAIN comments' \ DOMAIN comments :
                    comments'[id].text = Strip(call'.arg.s)]_vars

\* C13: a comment call answered 201 adds exactly one row, under an id no
\* row had, to the comments of its (user, recipe) pair and changes no
\* existing row; so n such calls leave n comments of the pair.
C13_CommentAlwaysCreates ==
    [][(Served("comment") /\ resp'.status = HTTP_201_CREATED) =>
        LET u == call'.user
            r == call'.pk
        IN  /\ \E id \in DOMAIN comments' \ DOMAIN comments :
                  /\ DOMAIN comments' = DOMAIN comments \cup {id}
                  /\ comments'[id].user = u
                  /\ comments'[id].recipe = r
            /\ \A i \in DOMAIN comments : comments'[i] = comments[i]
            /\ Cardinality(CommentsOf(comments', u, r))
                  = Cardinality(CommentsOf(comments, u, r)) + 1]_vars

\* the second comment of a user on a recipe was created beside the first
C13_Witness ==
    /\ call.op = "comment"
    /\ resp.status = HTTP_201_CREATED
    /\ Cardinality(CommentsOf(comments, call.user, call.pk)) = 2

(***************************************************************************)
(* Deleting recipes that have ingredients and engagement rows.  The seeded *)
(* recipes have Ingredient rows (entered through the admin site); users    *)
(* favorite, rate and comment, and recipes are deleted through the recipe  *)
(* endpoint and the administrators' endpoint.                              *)
(***************************************************************************)
IngredientNames == {"salt", "egg"}

SeededIngredients ==
    {[recipe |-> 1, name |-> "salt"],
     [recipe |-> 2, name |-> "salt"],
     [recipe |-> 2, name |-> "egg"]}

InitCascade ==
    /\ is_staff = StaffSeed
    /\ recipes = SeededRecipes
    /\ nextRecipeId = 3
    /\ now = 0
    /\ accounts = SeededAccounts
    /\ ingredient_items = SeededIngredients
    /\ favorites = [p \in Pairs |-> 0]
    /\ ratings = [p \in Pairs |-> <<>>]
    /\ comments = <<>>
    /\ nextCommentId = 1
    /\ workers = [w \in Workers |-> Idle]
    /\ call = [op |-> "none"]
    /\ resp = [status |-> 0, data |-> <<>>]

NextCascade ==
    \E user \in Users, pk \in RecipeIds :
        \/ Favorite(user, pk, NoQuery)
        \/ Rate(user, pk, NoQuery, PyInt(5))
        \/ Comment(user, pk, NoQuery, PyStr(<<"h", "i">>))
        \/ RecipeDestroy(user, pk, NoQuery)
        \/ AdminRecipeDestroy(user, pk)

SpecCascade == InitCascade /\ [][NextCascade]_vars

\* C15: no Ingredient, Favorite, Rating or Comment refers to a recipe that
\* does not exist: the delete of a recipe removed all of them.
C15_NoOrphans ==
    /\ \A row \in ingredient_items : row.recipe \in DOMAIN recipes
    /\ \A p \in DOMAIN favorites : favorites[p] > 0 => p[2] \in DOMAIN recipes
    /\ \A p \in DOMAIN ratings : ratings[p] # <<>> => p[2] \in DOMAIN recipes
    /\ \A id \in DOMAIN comments : comments[id].recipe \in DOMAIN recipes

\* a recipe that had ingredients was deleted after a comment was written
\* on it, while the other recipe keeps its ingredients and a Favorite
C15_Witness ==
    /\ call.op \in {"destroy", "admin_destroy"}
    /\ resp.status = HTTP_204_NO_CONTENT
    /\ call.pk \notin DOMAIN recipes
    /\ nextCommentId > 1
    /\ comments = <<>>
    /\ ingredient_items # {}
    /\ \E p \in Pairs : favorites[p] > 0

(***************************************************************************)
(* Updates of recipes that have ingredients.                               *)
(***************************************************************************)
\* request bodies of an update, with and without an ingredients list
IngredientPayloads ==
    {[ingredients_list |-> {"egg"}],
     [ingredients_list |-> {}, is_published |-> TRUE],
     [title |-> Pie, ingredients_list |-> {"salt", "egg"}],
     [is_published |-> FALSE]}

NextIngredients ==
    \E user \in Requesters, pk \in RecipeIds, method \in {"PUT", "PATCH"},
       data \in IngredientPayloads :
        \/ RecipeUpdate(user, pk, NoQuery, method, data)
        \/ AdminRecipeUpdate(user, pk, method, data)

SpecIngredients == InitCascade /\ [][NextIngredients]_vars

\* the names of the Ingredient rows of recipe r in table tbl
IngredientsOf(tbl, r) == {row.name : row \in {x \in tbl : x.recipe = r}}

\* C17: after an update that was answered 200, the recipe's ingredients are
\* exactly the supplied list when the body has one, and are unchanged when
\* it has none; the ingredients of the other recipes are unchanged.
C17_IngredientsReplaced ==
    [][(call'.op \in {"update", "admin_update"} /\ resp'.status = HTTP_200_OK) =>
        /\ IngredientsOf(ingredient_items', call'.pk) =
              IF "ingredients_list" \in DOMAIN call'.arg.data
              THEN call'.arg.data.ingredients_list
              ELSE IngredientsOf(ingredient_items, call'.pk)
        /\ \A r \in RecipeIds \ {call'.pk} :
              IngredientsOf(ingredient_items', r) = IngredientsOf(ingredient_items, r)]_vars

(***************************************************************************)
(* Accounts: RegisterView, ProfileView and the administrators' user        *)
(* endpoint (UserDetailView).  u1 and u2 are registered, u2 is an admin,   *)
(* and one more user can register.                                         *)
(***************************************************************************)
AccountIds == Users \cup {"u3"}

\* the lookups username__iexact / email__iexact
IExact(a, b) == LowerStr(a) = LowerStr(b)

\* the exact lookup of UniqueValidator, under a case-sensitive collation
Exact(a, b) == a = b

RegisterPayloads ==
    {[username |-> NameBobCaps, email |-> MailD],
     [username |-> NameCy, email |-> MailACaps],
     [username |-> NameCy, email |-> MailD],
     [username |-> NameCy, email |-> MailD, is_staff |-> TRUE]}

\* request bodies of a profile or user update
UserPayloads ==
    {[email |-> MailACaps],
     [username |-> NameBobCaps],
     [username |-> NameAl],
     [is_staff |-> TRUE]}

\* request bodies of an administrator's user update
AdminUserPayloads == {[is_staff |-> TRUE], [is_staff |-> FALSE]}

InitAccounts ==
    /\ is_staff = [u \in AccountIds |-> u = "u2"]
    /\ accounts = SeededAccounts
    /\ recipes = SeededRecipes
    /\ nextRecipeId = 3
    /\ now = 0
    /\ ingredient_items = {}
    /\ favorites = [p \in Pairs |-> 0]
    /\ ratings = [p \in Pairs |-> <<>>]
    /\ comments = <<>>
    /\ nextCommentId = 1
    /\ workers = [w \in Workers |-> Idle]
    /\ call = [op |-> "none"]
    /\ resp = [status |-> 0, data |-> <<>>]

\* RegisterSerializer.validate_username / validate_email
RegisterValid(data) ==
    /\ ~\E id \in DOMAIN accounts : IExact(accounts[id].username, data.username)
    /\ ~\E id \in DOMAIN accounts : IExact(accounts[id].email, data.email)

\* POST /auth/register/
Register(data) ==
    LET c == Request("register", Anonymous, 0, NoQuery, data)
    IN  /\ UNCHANGED <<recipes, nextRecipeId, ingredient_items, now, favorites, ratings,
                       comments, nextCommentId, workers>>
        /\ IF ~RegisterValid(data)
           THEN /\ Respond(c, HTTP_400_BAD_REQUEST, <<>>)
                /\ UNCHANGED <<is_staff, accounts>>
           ELSE /\ AccountIds \ DOMAIN accounts # {}
                /\ LET id == CHOOSE u \in AccountIds \ DOMAIN accounts : TRUE
                   IN  /\ accounts' = [u \in DOMAIN accounts \cup {id} |->
                                         IF u = id
                                         THEN [username |-> data.username,
                                               email |-> data.email]
                                         ELSE accounts[u]]
                       /\ is_staff' = [is_staff EXCEPT ![id] = FALSE]
                       /\ Respond(c, HTTP_201_CREATED, <<>>)

\* the fields UserSerializer writes: Meta.fields less read_only_fields
UserWritableFields == {"username", "email", "is_staff"}

\* UserSerializer.is_valid() for the user id: username is required unless
\* the update is partial and must not be the username of another user
UserPayloadValid(id, method, data) ==
    /\ method = "PATCH" \/ "username" \in DOMAIN data
    /\ "username" \in DOMAIN data =>
          ~\E o \in DOMAIN accounts \ {id} : Exact(accounts[o].username, data.username)

\* UserSerializer.save() on the user id
UserSave(id, data) ==
    /\ accounts' = [accounts EXCEPT ![id] =
                       [f \in DOMAIN @ |->
                          IF f \in DOMAIN data /\ f \in UserWritableFields
                          THEN data[f] ELSE @[f]]]
    /\ is_staff' = IF "is_staff" \in DOMAIN data /\ "is_staff" \in UserWritableFields
                   THEN [is_staff EXCEPT ![id] = data.is_staff]
                   ELSE is_staff

\* GET /auth/profile/
ProfileRetrieve(user) ==
    LET c == Request("profile_retrieve", user, 0, NoQuery, PyNone)
    IN  /\ UNCHANGED <<is_staff, accounts, recipes, nextRecipeId, ingredient_items, now,
                       favorites, ratings, comments, nextCommentId, workers>>
        /\ IF ~IsAuthenticated(user)
           THEN \E st \in DeniedStatus(user) : Respond(c, st, <<>>)
           ELSE Respond(c, HTTP_200_OK, <<>>)

\* PUT / PATCH /auth/profile/
ProfileUpdate(user, method, data) ==
    LET c == Request("profile_update", user, 0, NoQuery,
                     [method |-> method, data |-> data])
    IN  /\ UNCHANGED <<recipes, nextRecipeId, ingredient_items, now, favorites, ratings,
                       comments, nextCommentId, workers>>
        /\ IF ~IsAuthenticated(user)
           THEN /\ \E st \in DeniedStatus(user) : Respond(c, st, <<>>)
                /\ UNCHANGED <<is_staff, accounts>>
           ELSE IF ~UserPayloadValid(user, method, data)
           THEN /\ Respond(c, HTTP_400_BAD_REQUEST, <<>>)
                /\ UNCHANGED <<is_staff, accounts>>
           ELSE /\ UserSave(user, data)
                /\ Respond(c, HTTP_200_OK, <<>>)

\* PUT / PATCH /admin/users/{pk}/
AdminUserUpdate(user, pk, method, data) ==
    LET c == Request("admin_user_update", user, 0, NoQuery,
                     [method |-> method, data |-> data, target |-> pk])
    IN  /\ UNCHANGED <<recipes, nextRecipeId, ingredient_items, now, favorites, ratings,
                       comments, nextCommentId, workers>>
        /\ IF ~IsAdminUser(user)
           THEN /\ \E st \in DeniedStatus(user) : Respond(c, st, <<>>)
                /\ UNCHANGED <<is_staff, accounts>>
           ELSE IF pk \notin DOMAIN accounts
           THEN /\ Respond(c, HTTP_404_NOT_FOUND, <<>>)
                /\ UNCHANGED <<is_staff, accounts>>
           ELSE IF ~UserPayloadValid(pk, method, data)
           THEN /\ Respond(c, HTTP_400_BAD_REQUEST, <<>>)
                /\ UNCHANGED <<is_staff, accounts>>
           ELSE /\ UserSave(pk, data)
                /\ Respond(c, HTTP_200_OK, <<>>)

\* the requesters of an account request: the registered users and the
\* anonymous requester
AccountRequesters == DOMAIN accounts \cup {Anonymous}

NextAccounts ==
    \/ \E data \in RegisterPayloads : Register(data)
    \/ \E user \in AccountRequesters :
          \/ ProfileRetrieve(user)
          \/ \E method \in {"PUT", "PATCH"}, data \in UserPayloads :
                ProfileUpdate(user, method, data)
          \/ \E pk \in AccountIds, method \in {"PUT", "PATCH"},
                data \in AdminUserPayloads : AdminUserUpdate(user, pk, method, data)

SpecAccounts == InitAccounts /\ [][NextAccounts]_vars

\* no two registered users have usernames, or emails, equal ignoring case
CaseInsensitiveUnique(tbl) ==
    \A a, b \in DOMAIN tbl :
        a # b => /\ LowerStr(tbl[a].username) # LowerStr(tbl[b].username)
                 /\ LowerStr(tbl[a].email) # LowerStr(tbl[b].email)

\* C19: usernames and emails are unique ignoring case after every register
\* and profile update, and a register whose username or email equals that
\* of a registered user ignoring case answers 400 and creates no user.
C19_CaseInsensitiveUnique ==
    [][/\ CaseInsensitiveUnique(accounts')
       /\ (/\ call'.op = "register"
           /\ \E id \in DOMAIN accounts :
                 \/ LowerStr(accounts[id].username) = LowerStr(call'.arg.username)
                 \/ LowerStr(accounts[id].email) = LowerStr(call'.arg.email))
          => resp'.status = HTTP_400_BAD_REQUEST /\ accounts' = accounts]_vars

\* C20: a user who does not hold the administrative flag gets it only
\* through a request made by a user who holds it.
C20_NoPrivilegeEscalation ==
    [][\A u \in AccountIds :
          (~is_staff[u] /\ is_staff'[u]) =>
              (call'.user \in AccountIds /\ is_staff[call'.user])]_vars

(***************************************************************************)
(* The four engagement operations together: favorite, unfavorite, rate and *)
(* comment.  u2 has favorited, rated and commented before; u1 and the      *)
(* anonymous requester send the requests.                                  *)
(***************************************************************************)
FrameRequesters == {"u1", Anonymous}

InitFrame ==
    /\ is_staff = StaffSeed
    /\ accounts = SeededAccounts
    /\ recipes = SeededRecipes
    /\ nextRecipeId = 3
    /\ now = 0
    /\ ingredient_items = SeededIngredients
    /\ favorites = [p \in Pairs |-> IF p[1] = "u2" THEN 1 ELSE 0]
    /\ ratings = [p \in Pairs |-> IF p[1] = "u2" THEN <<3>> ELSE <<>>]
    /\ comments = <<[user |-> "u2", recipe |-> 1, text |-> <<"h", "i">>]>>
    /\ nextCommentId = 2
    /\ workers = [w \in Workers |-> Idle]
    /\ call = [op |-> "none"]
    /\ resp = [status |-> 0, data |-> <<>>]

NextFrame ==
    \E user \in FrameRequesters, pk \in RecipeIds :
        \/ Favorite(user, pk, NoQuery)
        \/ Unfavorite(user, pk, NoQuery)
        \/ \E x \in RatingInputs : Rate(user, pk, NoQuery, x)
        \/ \E text \in CommentTexts : Comment(user, pk, NoQuery, text)

SpecFrame == InitFrame /\ [][NextFrame]_vars

\* C21: a favorite, unfavorite, rate or comment of user u on recipe r
\* changes no recipe, ingredient or account, no Favorite or Rating of
\* another (user, recipe) pair and no existing Comment; a Comment it adds is
\* u's on r; favorite and unfavorite write only Favorites, rate only
\* Ratings, comment only Comments; an anonymous call changes no table.
C21_EngagementFrame ==
    [][call'.op \in {"favorite", "unfavorite", "rate", "comment"} =>
        /\ recipes' = recipes
        /\ ingredient_items' = ingredient_items
        /\ accounts' = accounts /\ is_staff' = is_staff
        /\ \A p \in Pairs :
              p # <<call'.user, call'.pk>> =>
                  favorites'[p] = favorites[p] /\ ratings'[p] = ratings[p]
        /\ \A id \in DOMAIN comments :
              id \in DOMAIN comments' /\ comments'[id] = comments[id]
        /\ \A id \in DOMAIN comments' \ DOMAIN comments :
              comments'[id].user = call'.user /\ comments'[id].recipe = call'.pk
        /\ call'.op \in {"favorite", "unfavorite"} =>
              ratings' = ratings /\ comments' = comments
        /\ call'.op = "rate" => favorites' = favorites /\ comments' = comments
        /\ call'.op = "comment" => favorites' = favorites /\ ratings' = ratings
        /\ call'.user = Anonymous =>
              favorites' = favorites /\ ratings' = ratings /\ comments' = comments]_vars

\* u1 removed a Favorite of theirs while their Favorite of the other
\* recipe, their Rating and a Comment of theirs, and a Favorite and a
\* Rating of u2 on the same recipe, are in the store
C21_Witness ==
    /\ call.op = "unfavorite"
    /\ call.user = "u1"
    /\ resp.status = HTTP_204_NO_CONTENT
    /\ favorites[<<"u1", call.pk>>] = 0
    /\ \E r \in RecipeIds : favorites[<<"u1", r>>] = 1
    /\ favorites[<<"u2", call.pk>>] = 1
    /\ ratings[<<"u2", call.pk>>] # <<>>
    /\ ratings[<<"u1", call.pk>>] # <<>>
    /\ \E id \in DOMAIN comments : comments[id].user = "u1"

\* an anonymous comment was refused with Favorites, Ratings and Comments in
\* the store
C21_WitnessAnonymous ==
    /\ call.op = "comment"
    /\ call.user = Anonymous
    /\ IsForbidden(resp.status)
    /\ comments # <<>>
    /\ \E p \in Pairs : favorites[p] = 1 /\ ratings[p] # <<>>

====
